---- MODULE Spec2Model ----
(***************************************************************************)
(* The document ingestion chain of papermerge.core.import_pipeline:        *)
(* go_through_pipelines iterates the configured pipeline classes, builds   *)
(* each one from the running init map, calls its apply with the running    *)
(* apply map and merges the maps the stage hands back.                     *)
(*                                                                         *)
(* One chain run is modelled step by step (pc is the position inside       *)
(* go_through_pipelines / DefaultPipeline.apply), because several of the   *)
(* properties are about the order of the side effects inside one apply.    *)
(* The collaborators that are not part of the module (the document store,  *)
(* the storage backend, the task queue, the temp files) are modelled by    *)
(* what the pipeline does to them.  Page rows of a document are not        *)
(* represented.                                                            *)
(*                                                                         *)
(* Spec is a chain run over any configured stage list, SpecApply one apply *)
(* of DefaultPipeline under every combination of its arguments, SpecMerge  *)
(* a chain with pipeline classes that overwrite get_init_kwargs and        *)
(* get_apply_kwargs, SpecConcurrent one apply with a second apply running  *)
(* on the same store in another execution context.                         *)
(***************************************************************************)
EXTENDS Integers, Sequences, FiniteSets, TLC

\* ------------------------------------------------------------------ bounds
MaxStages  == 3      \* longest settings.PAPERMERGE_PIPELINES list explored
MaxVersion == 2      \* highest version of a pre-existing document
MaxPages   == 2      \* largest page count of an ingested file
MaxChain   == 2      \* longest stage list explored with overriding stages

\* --------------------------------------------------------------- constants
REST_API == "REST_API"
WEB      == "WEB"
IMAP     == "IMAP"
LOCAL_   == "LOCAL"       \* LOCAL is a reserved word of TLA+

None == "None"

\* the kinds of object a caller may hand over as payload
BYTES     == "bytes"
UPLOADED  == "TemporaryUploadedFile"
TEMPFILE  == "_TemporaryFileWrapper"
NOT_A_FILE     == "str"
FileKinds == {BYTES, UPLOADED, TEMPFILE}

PDF == "application/pdf"
PNG == "image/png"
Mimes == {PDF, PNG}

\* a "missing" document reference (documents are referred to by id) / user
NoDoc == 0
NoUser == [kind |-> None, name |-> None]

\* ----------------------------------------------------------------- state
VARIABLES
  pipelines,         \* settings.PAPERMERGE_PIPELINES: the configured stages
  User_objects,      \* the user table, in primary-key order
  Folder_inbox,      \* user name -> number of Inbox folders (parent NULL)
  Document_objects,  \* document id -> stored row
  heap,              \* document id -> the run's in-memory Document instance
  init_kwargs,       \* running init map of go_through_pipelines
  apply_kwargs,      \* running apply map of go_through_pipelines
  idx,               \* position of the for loop in pipelines (1-based)
  pc,                \* position inside the current iteration
  doc,               \* go_through_pipelines' local doc (the return value)
  importer,          \* the stage instance under construction / applied
  loc,               \* the locals of DefaultPipeline.apply
  raised,            \* exception that left go_through_pipelines, or None
  closes,            \* temp handle -> number of close() calls
  ondisk,            \* temp handle -> the file still exists at its path
  copied,            \* sequence of document ids copied into storage
  uploaded,          \* sequence of document ids uploaded for OCR
  queue,             \* messages handed to ocr_document_task.apply_async
  log,               \* per stage: what the chain did with it
  produced,          \* per stage: the document its apply returned
  before,            \* the store and the side effects so far when the
                     \* current stage was constructed
  peer               \* an apply running in another execution context

vars == <<pipelines, User_objects, Folder_inbox, Document_objects, heap,
          init_kwargs, apply_kwargs, idx, pc, doc, importer, loc, raised,
          closes, ondisk, copied, uploaded, queue, log, produced, before,
          peer>>

\* what no step of the run changes: the settings, the user table and the
\* locals of the other execution context
config == <<pipelines, User_objects, peer>>
store  == <<Folder_inbox, Document_objects, heap>>
sidefx == <<copied, uploaded, queue>>
files  == <<closes, ondisk>>
snap   == <<produced, before>>

\* ------------------------------------------------------------ dict helpers
\* dict.get(k, d)
Get(m, k, d) == IF k \in DOMAIN m THEN m[k] ELSE d

\* Merge with the override replacing the running map
Merge_replace(a, b) == b

\* {**a, **b}: every key of b replaces a's, every other key of a is kept
Merge(a, b) ==
  [k \in (DOMAIN a) \cup (DOMAIN b) |-> IF k \in DOMAIN b THEN b[k] ELSE a[k]]

\* the value of a dict handed back by a stage that hands back nothing
EmptyDict == [k \in {} |-> None]

\* ------------------------------------------------------- configured stages
\* A configured stage: whether its dotted path can be imported, which
\* payload classes its __init__ accepts (anything else raises TypeError) and
\* the mimetype allow-list its check_mimetype compares against.
DefaultStage == [importable |-> TRUE,  payload_types |-> FileKinds,
                 mimetypes |-> {PDF}]
ImageStage   == [importable |-> TRUE,  payload_types |-> FileKinds,
                 mimetypes |-> {PNG}]
UploadStage  == [importable |-> TRUE,  payload_types |-> {UPLOADED},
                 mimetypes |-> {PDF}]
MissingStage == [importable |-> FALSE, payload_types |-> {},
                 mimetypes |-> {}]
StageChoices == {DefaultStage, ImageStage, UploadStage, MissingStage}

\* A pipeline class of an app that inherits DefaultPipeline and overwrites
\* get_init_kwargs and get_apply_kwargs to hand back the given dicts.
Extended(init_temp, apply_temp) ==
  [importable |-> TRUE, payload_types |-> FileKinds, mimetypes |-> {PDF},
   init_kwargs_temp |-> init_temp, apply_kwargs_temp |-> apply_temp]

SeqsUpTo(S, n) == UNION {[1..k -> S] : k \in 0..n}

\* -------------------------------------------------------------- payloads
NoPayload == [kind |-> None, delete |-> FALSE, mime |-> None, pages |-> 0,
              size |-> 0]

\* a file of the given class; delete: closing the handle unlinks the file
FilePayloads(kinds, mimes, pages) ==
  {[kind |-> k, delete |-> d, mime |-> m, pages |-> n, size |-> 2048] :
     k \in kinds, d \in BOOLEAN, m \in mimes, n \in pages}

\* what a caller can pass as payload: nothing, something that is no file, raw
\* bytes, or a temp file.  An uploaded file and a temp file written from
\* bytes always unlink on close; a caller's _TemporaryFileWrapper may have
\* been opened with delete=False.
Payloads(mimes, pages) ==
  {NoPayload, [NoPayload EXCEPT !.kind = NOT_A_FILE]}
  \cup {p \in FilePayloads(FileKinds, mimes, pages) :
          p.kind \in {BYTES, UPLOADED} => p.delete}

\* ------------------------------------------------------------------ users
Admin == [username |-> "admin", is_superuser |-> TRUE,  lang |-> "eng"]
Alice == [username |-> "alice", is_superuser |-> FALSE, lang |-> "deu"]
UserTables == {<<Admin, Alice>>, <<Alice>>}

UserObj(name) == [kind |-> "User", name |-> name]
UserStr(name) == [kind |-> "str",  name |-> name]
UserArgs == {NoUser, UserStr("alice"), UserStr("ghost"), UserObj("alice")}

\* QuerySet.filter(...).first(): of the rows of the table that passed the
\* filter (hits: their positions), the first in primary-key order as a User
\* object, or None
First(table, hits) ==
  IF hits = {} THEN NoUser
  ELSE UserObj(table[CHOOSE j \in hits : \A h \in hits : j <= h].username)

\* filter(is_superuser=True) and filter(username=name)
Superusers(table) == {j \in 1..Len(table) : table[j].is_superuser}
Named(table, name) == {j \in 1..Len(table) : table[j].username = name}

\* user.preferences['ocr__OCR_Language']
Preference(table, name) ==
  LET j == CHOOSE j \in 1..Len(table) : table[j].username = name
  IN  table[j].lang

InboxId(name) == "inbox-" \o name

\* -------------------------------------------------------------- documents
\* a document already stored before the run
ExistingDoc(v) ==
  [id |-> 1, version |-> v, page_count |-> 1, file_name |-> "old.pdf",
   size |-> 512, user |-> UserObj("alice"), lang |-> "deu", parent |-> "folder-1"]

NoImporter == [processor |-> None, doc |-> NoDoc, handle |-> -1]

NoLocals == [user |-> NoUser, parent |-> None, lang |-> None, name |-> None,
             page_count |-> 0, size |-> 0, version |-> 0,
             target_version |-> 0, doc |-> NoDoc, bound |-> FALSE,
             namespace |-> None]

\* the locals of an apply in another execution context: the owner it was
\* called for, the document it was given (doc, and instance once loaded),
\* what its Inbox lookup found, whether the store refused its Inbox row, and
\* the versions it computed
NoRow == [id |-> NoDoc]
NoPeer == [pc |-> "absent", user |-> None, doc |-> NoDoc, instance |-> NoRow,
           found |-> FALSE, refused |-> FALSE, version |-> 0,
           target_version |-> 1]

\* the keyword arguments of apply an entry point builds
ApplyArgs(users, parents, langs, names, skips, asyncs, creates) ==
  [user : users, parent : parents, lang : langs, notes : {None},
   name : names, skip_ocr : skips, apply_async : asyncs,
   create_document : creates]

\* the init map an entry point builds: payload and processor kind, and the
\* document to update when there is one
InitArgs(payloads, docs, processors) ==
  {[payload |-> p, processor |-> k] : p \in payloads, k \in processors}
  \cup {[payload |-> p, processor |-> k, doc |-> d.id] :
          p \in payloads, k \in processors, d \in docs}

\* ------------------------------------------------------------------- Init
\* the state in which go_through_pipelines is entered with the given maps
Entered(stages, table, iargs, aargs, existing) ==
  /\ pipelines = stages
  /\ User_objects = table
  /\ Folder_inbox = [u \in {"admin", "alice"} |-> 0]
  /\ Document_objects = [d \in {e.id : e \in existing} |->
                           CHOOSE e \in existing : e.id = d]
  /\ heap = Document_objects
  /\ init_kwargs = iargs
  /\ apply_kwargs = aargs
  /\ idx = 1
  /\ pc = "loop"
  /\ doc = NoDoc
  /\ importer = NoImporter
  /\ loc = NoLocals
  /\ raised = None
  /\ closes = [h \in 0..Len(stages) |-> 0]
  /\ ondisk = [h \in 0..Len(stages) |->
                 h = 0 /\ iargs.payload.kind \in {UPLOADED, TEMPFILE}]
  /\ copied = <<>>
  /\ uploaded = <<>>
  /\ queue = <<>>
  /\ log = [k \in 1..Len(stages) |-> "pending"]
  /\ produced = [k \in 1..Len(stages) |-> NoDoc]
  /\ before = [rows |-> Document_objects, copied |-> <<>>,
               uploaded |-> <<>>, queue |-> <<>>]
  /\ peer = NoPeer

\* the requests the chain is explored with: a web upload into a folder by a
\* logged-in user, an import without user and folder that skips OCR, an
\* update-only request, and an import for a username that does not exist
ChainRequests ==
  ApplyArgs({UserObj("alice")}, {"folder-1"}, {None}, {"scan.pdf"},
            {FALSE}, {FALSE}, {TRUE})
  \cup ApplyArgs({NoUser}, {None}, {None}, {None}, {TRUE}, {FALSE}, {TRUE})
  \cup ApplyArgs({UserObj("alice")}, {"folder-1"}, {None}, {None},
                 {FALSE}, {FALSE}, {FALSE})
  \cup ApplyArgs({UserStr("ghost")}, {None}, {None}, {None},
                 {FALSE}, {FALSE}, {TRUE})

\* the documents stored before the run: none, or one at some version
Existing(versions) == {{}} \cup {{ExistingDoc(v)} : v \in versions}

\* a chain run over any configured stage list and any payload
Init ==
  \E stages \in SeqsUpTo(StageChoices, MaxStages),
     existing \in Existing({0, MaxVersion}),
     aargs \in ChainRequests :
    \E iargs \in InitArgs(Payloads(Mimes, {MaxPages}), existing, {WEB}) :
      /\ ("doc" \in DOMAIN iargs) = (existing # {})
      /\ Entered(stages, <<Admin, Alice>>, iargs, aargs, existing)

\* ------------------------------------------------ DefaultPipeline.__init__
\* check_mimetype that accepts every mimetype the classifier knows
check_mimetype_any(stage, payload) == payload.mime \in Mimes

\* check_mimetype: TRUE when the mimetype is in the stage's allow-list (the
\* method returns None), FALSE when it raises FileTypeNotSupported
check_mimetype(stage, payload) == payload.mime \in stage.mimetypes

\* the payload argument the constructor receives (payload=None by default)
PayloadArg == Get(init_kwargs, "payload", NoPayload)

\* the constructor's isinstance chain: TRUE when it ends in raise TypeError
RaisesTypeError(stage, payload) == payload.kind \notin stage.payload_types

\* the temp handle self.payload / self.path refer to: bytes are written to
\* a fresh temp file by write_temp, a file payload is used as it is
HandleOf(payload, k) == IF payload.kind = BYTES THEN k ELSE 0

\* write_temp: the temp file of stage k exists once bytes were written
write_temp(payload, k) ==
  IF payload.kind = BYTES THEN [ondisk EXCEPT ![k] = TRUE] ELSE ondisk

\* does closing this handle unlink its file
Unlinks(payload, h) == IF h = 0 THEN payload.delete ELSE TRUE

Stage == pipelines[idx]

InLoop == pc = "loop" /\ idx <= Len(pipelines)

\* ------------------------------------------------- go_through_pipelines
\* the for loop is exhausted: return doc
LoopExit ==
  /\ pc = "loop" /\ idx > Len(pipelines)
  /\ pc' = "returned"
  /\ UNCHANGED snap
  /\ UNCHANGED <<config, store, init_kwargs, apply_kwargs, idx, doc,
                 importer, loc, raised, files, sidefx, log>>

\* StageImportError with the ImportError ending the loop (break)
StageImportError_break ==
  /\ InLoop /\ ~Stage.importable
  /\ log' = [log EXCEPT ![idx] = "import_error"]
  /\ pc' = "returned"
  /\ UNCHANGED snap
  /\ UNCHANGED <<config, store, init_kwargs, apply_kwargs, idx, doc,
                 importer, loc, raised, files, sidefx>>

\* import_string raises ImportError: log and continue
StageImportError ==
  /\ InLoop /\ ~Stage.importable
  /\ log' = [log EXCEPT ![idx] = "import_error"]
  /\ idx' = idx + 1
  /\ UNCHANGED snap
  /\ UNCHANGED <<config, store, init_kwargs, apply_kwargs, pc, doc,
                 importer, loc, raised, files, sidefx>>

\* StageTypeError with the TypeError handled like a skip (continue)
StageTypeError_continue ==
  /\ InLoop /\ Stage.importable
  /\ RaisesTypeError(Stage, PayloadArg)
  /\ log' = [log EXCEPT ![idx] = "type_error"]
  /\ idx' = idx + 1
  /\ UNCHANGED snap
  /\ UNCHANGED <<config, store, init_kwargs, apply_kwargs, pc, doc,
                 importer, loc, raised, files, sidefx>>

\* pipeline_class(**init_kwargs) raises TypeError: break, then return doc
StageTypeError ==
  /\ InLoop /\ Stage.importable
  /\ RaisesTypeError(Stage, PayloadArg)
  /\ log' = [log EXCEPT ![idx] = "type_error"]
  /\ pc' = "returned"
  /\ UNCHANGED snap
  /\ UNCHANGED <<config, store, init_kwargs, apply_kwargs, idx, doc,
                 importer, loc, raised, files, sidefx>>

\* the constructor reads the mimetype from a path whose file is gone: the
\* error is none of those the chain catches and leaves the chain
StagePathGone ==
  /\ InLoop /\ Stage.importable
  /\ ~RaisesTypeError(Stage, PayloadArg)
  /\ ~write_temp(PayloadArg, idx)[HandleOf(PayloadArg, idx)]
  /\ log' = [log EXCEPT ![idx] = "failed"]
  /\ raised' = "OSError"
  /\ pc' = "raised"
  /\ UNCHANGED snap
  /\ UNCHANGED <<config, store, init_kwargs, apply_kwargs, idx, doc,
                 importer, loc, files, sidefx>>

\* StageNotSupported with the rejection handled like a hard stop (break)
StageNotSupported_break ==
  /\ InLoop /\ Stage.importable
  /\ ~RaisesTypeError(Stage, PayloadArg)
  /\ write_temp(PayloadArg, idx)[HandleOf(PayloadArg, idx)]
  /\ PayloadArg.mime \notin Stage.mimetypes
  /\ ondisk' = write_temp(PayloadArg, idx)
  /\ log' = [log EXCEPT ![idx] = "not_supported"]
  /\ pc' = "returned"
  /\ UNCHANGED snap
  /\ UNCHANGED <<config, store, init_kwargs, apply_kwargs, idx, doc,
                 importer, loc, raised, closes, sidefx>>

\* check_mimetype raises FileTypeNotSupported: continue
StageNotSupported ==
  /\ InLoop /\ Stage.importable
  /\ ~RaisesTypeError(Stage, PayloadArg)
  /\ write_temp(PayloadArg, idx)[HandleOf(PayloadArg, idx)]
  /\ ~check_mimetype(Stage, PayloadArg)
  /\ ondisk' = write_temp(PayloadArg, idx)
  /\ log' = [log EXCEPT ![idx] = "not_supported"]
  /\ idx' = idx + 1
  /\ UNCHANGED snap
  /\ UNCHANGED <<config, store, init_kwargs, apply_kwargs, pc, doc,
                 importer, loc, raised, closes, sidefx>>

\* the constructor succeeds: importer is the new stage instance
StageConstructed ==
  /\ InLoop /\ Stage.importable
  /\ ~RaisesTypeError(Stage, PayloadArg)
  /\ write_temp(PayloadArg, idx)[HandleOf(PayloadArg, idx)]
  /\ check_mimetype(Stage, PayloadArg)
  /\ ondisk' = write_temp(PayloadArg, idx)
  /\ importer' = [processor |-> Get(init_kwargs, "processor", WEB),
                  doc       |-> Get(init_kwargs, "doc", NoDoc),
                  handle    |-> HandleOf(PayloadArg, idx)]
  /\ loc' = NoLocals
  /\ log' = [log EXCEPT ![idx] = "constructed"]
  /\ before' = [rows |-> Document_objects, copied |-> copied,
                uploaded |-> uploaded, queue |-> queue]
  /\ pc' = "apply"
  /\ UNCHANGED produced
  /\ UNCHANGED <<config, store, init_kwargs, apply_kwargs, idx, doc,
                 raised, closes, sidefx>>

\* -------------------------------------------------- DefaultPipeline.apply
\* the keyword arguments apply is called with, defaults filled in
Arg == [user            |-> Get(apply_kwargs, "user", NoUser),
        parent          |-> Get(apply_kwargs, "parent", None),
        lang            |-> Get(apply_kwargs, "lang", None),
        notes           |-> Get(apply_kwargs, "notes", None),
        name            |-> Get(apply_kwargs, "name", None),
        skip_ocr        |-> Get(apply_kwargs, "skip_ocr", FALSE),
        apply_async     |-> Get(apply_kwargs, "apply_async", FALSE),
        create_document |-> Get(apply_kwargs, "create_document", TRUE)]

\* get_user_properties: the owner (first superuser when none is given, the
\* account of that username when a string is given) and that owner's
\* language; ok is FALSE when no account was found, where reading
\* user.preferences raises AttributeError
get_user_properties(user) ==
  LET u1 == IF user = NoUser
            THEN First(User_objects, Superusers(User_objects))
            ELSE user
      u2 == IF u1.kind = "str"
            THEN First(User_objects, Named(User_objects, u1.name))
            ELSE u1
  IN  IF u2 = NoUser
      THEN [ok |-> FALSE, user |-> NoUser, lang |-> None]
      ELSE [ok |-> TRUE, user |-> u2,
            lang |-> Preference(User_objects, u2.name)]

\* get_or_create_inbox with a lookup only
get_inbox(name) == Folder_inbox

\* Folder.objects.get_or_create(title=INBOX_TITLE, parent=None, user=user)
get_or_create_inbox(name) ==
  IF Folder_inbox[name] = 0 THEN [Folder_inbox EXCEPT ![name] = 1]
  ELSE Folder_inbox

\* basename(self.path)
basename(h) == IF h = 0 THEN "upload.tmp" ELSE "tmpfile"

\* page_count() and getsize(self.path) of the file behind the stage
page_count == PayloadArg.pages
getsize    == PayloadArg.size

\* lines 210-221 with parent None and no account found: AttributeError
ApplyNoUser ==
  /\ pc = "apply"
  /\ Arg.parent = None
  /\ ~get_user_properties(Arg.user).ok
  /\ raised' = "AttributeError"
  /\ log' = [log EXCEPT ![idx] = "failed"]
  /\ pc' = "raised"
  /\ UNCHANGED snap
  /\ UNCHANGED <<config, store, init_kwargs, apply_kwargs, idx, doc,
                 importer, loc, files, sidefx>>

\* ApplyResolve with the Inbox as target for every processor kind
ApplyResolve_inbox_always ==
  /\ pc = "apply"
  /\ Arg.parent = None => get_user_properties(Arg.user).ok
  /\ LET props == get_user_properties(Arg.user)
         inbox == Arg.parent = None
         user  == IF inbox THEN props.user ELSE Arg.user
         lang  == IF inbox THEN props.lang ELSE Arg.lang
         parent == IF inbox
                   THEN InboxId(user.name) ELSE Arg.parent
         name  == IF Arg.name = None THEN basename(importer.handle)
                  ELSE Arg.name
     IN  /\ Folder_inbox' = IF inbox THEN get_or_create_inbox(user.name)
                            ELSE Folder_inbox
         /\ loc' = [NoLocals EXCEPT !.user = user, !.lang = lang,
                                    !.parent = parent, !.name = name,
                                    !.page_count = page_count,
                                    !.size = getsize,
                                    !.version = 0, !.target_version = 1]
  /\ pc' = "document"
  /\ UNCHANGED snap
  /\ UNCHANGED <<config, Document_objects, heap, init_kwargs, apply_kwargs,
                 idx, doc, importer, raised, files, sidefx, log>>

\* lines 210-221: owner, language, target folder, name, page count, size
ApplyResolve ==
  /\ pc = "apply"
  /\ Arg.parent = None => get_user_properties(Arg.user).ok
  /\ LET props == get_user_properties(Arg.user)
         inbox == Arg.parent = None
         user  == IF inbox THEN props.user ELSE Arg.user
         lang  == IF inbox THEN props.lang ELSE Arg.lang
         parent == IF inbox /\ importer.processor \in {REST_API, LOCAL_, IMAP}
                   THEN InboxId(user.name) ELSE Arg.parent
         name  == IF Arg.name = None THEN basename(importer.handle)
                  ELSE Arg.name
     IN  /\ Folder_inbox' = IF inbox THEN get_or_create_inbox(user.name)
                            ELSE Folder_inbox
         /\ loc' = [NoLocals EXCEPT !.user = user, !.lang = lang,
                                    !.parent = parent, !.name = name,
                                    !.page_count = page_count,
                                    !.size = getsize,
                                    !.version = 0, !.target_version = 1]
  /\ pc' = "document"
  /\ UNCHANGED snap
  /\ UNCHANGED <<config, Document_objects, heap, init_kwargs, apply_kwargs,
                 idx, doc, importer, raised, files, sidefx, log>>

\* the id the store gives the next new row
NextId == Cardinality(DOMAIN Document_objects) + 1

\* the row Document.objects.create_document builds from its arguments
NewDocument ==
  [id |-> NextId, version |-> 0, page_count |-> loc.page_count,
   file_name |-> loc.name, size |-> loc.size, user |-> loc.user,
   lang |-> loc.lang, parent |-> loc.parent]

\* f with x mapped to v, x added to the domain when new
Put(f, x, v) == [y \in (DOMAIN f) \cup {x} |-> IF y = x THEN v ELSE f[y]]

\* lines 223-235: no document yet, create_document succeeds
ApplyCreate ==
  /\ pc = "document"
  /\ Arg.create_document /\ importer.doc = NoDoc
  /\ Document_objects' = Put(Document_objects, NextId, NewDocument)
  /\ heap' = Put(heap, NextId, NewDocument)
  /\ importer' = [importer EXCEPT !.doc = NextId]
  /\ loc' = [loc EXCEPT !.doc = NextId, !.bound = TRUE]
  /\ pc' = "move"
  /\ UNCHANGED snap
  /\ UNCHANGED <<config, Folder_inbox, init_kwargs, apply_kwargs, idx, doc,
                 raised, files, sidefx, log>>

\* ApplyCreateInvalid with the file copied before the row is validated
ApplyCreateInvalid_after_copy ==
  /\ pc = "document"
  /\ Arg.create_document /\ importer.doc = NoDoc
  /\ copied' = Append(copied, NextId)
  /\ raised' = "ValidationError"
  /\ log' = [log EXCEPT ![idx] = "failed"]
  /\ pc' = "raised"
  /\ UNCHANGED snap
  /\ UNCHANGED <<config, store, init_kwargs, apply_kwargs, idx, doc,
                 importer, loc, files, uploaded, queue>>

\* lines 236-238: create_document raises ValidationError, re-raised
ApplyCreateInvalid ==
  /\ pc = "document"
  /\ Arg.create_document /\ importer.doc = NoDoc
  /\ raised' = "ValidationError"
  /\ log' = [log EXCEPT ![idx] = "failed"]
  /\ pc' = "raised"
  /\ UNCHANGED snap
  /\ UNCHANGED <<config, store, init_kwargs, apply_kwargs, idx, doc,
                 importer, loc, files, sidefx>>

\* Bumped with the page count left as it was
Bumped_stale_pages(d) ==
  [d EXCEPT !.version = d.version + 1,
            !.file_name = loc.name, !.size = loc.size]

\* the in-memory document after lines 241-246
Bumped(d) ==
  [d EXCEPT !.version = d.version + 1, !.page_count = loc.page_count,
            !.file_name = loc.name, !.size = loc.size]

\* lines 239-252: an existing document gets its next version; save() stores
\* it, then full_clean() passes (valid) or raises ValidationError
ApplyUpdate ==
  /\ pc = "document"
  /\ importer.doc # NoDoc
  /\ LET d == heap[importer.doc]
     IN  /\ heap' = [heap EXCEPT ![d.id] = Bumped(d)]
         /\ Document_objects' = [Document_objects EXCEPT ![d.id] = Bumped(d)]
         /\ loc' = [loc EXCEPT !.doc = d.id, !.bound = TRUE,
                               !.version = d.version,
                               !.target_version = d.version + 1]
  /\ \E valid \in BOOLEAN :
       IF valid
       THEN pc' = "move" /\ UNCHANGED <<raised, log>>
       ELSE /\ pc' = "raised"
            /\ raised' = "ValidationError"
            /\ log' = [log EXCEPT ![idx] = "failed"]
  /\ UNCHANGED snap
  /\ UNCHANGED <<config, Folder_inbox, init_kwargs, apply_kwargs, idx, doc,
                 importer, files, sidefx>>

\* neither branch is taken (create_document false, no document): line 254
\* reads the unbound local doc
ApplyUnbound ==
  /\ pc = "document"
  /\ ~Arg.create_document /\ importer.doc = NoDoc
  /\ raised' = "UnboundLocalError"
  /\ log' = [log EXCEPT ![idx] = "failed"]
  /\ pc' = "raised"
  /\ UNCHANGED snap
  /\ UNCHANGED <<config, store, init_kwargs, apply_kwargs, idx, doc,
                 importer, loc, files, sidefx>>

\* move_tempfile with the payload closed whether or not the copy succeeded
move_tempfile_finally ==
  /\ pc = "move"
  /\ closes' = [closes EXCEPT ![importer.handle] = @ + 1]
  /\ \E ok \in BOOLEAN :
       IF ok
       THEN /\ copied' = Append(copied, loc.doc)
            /\ pc' = "ocr"
            /\ UNCHANGED <<raised, log>>
       ELSE /\ raised' = "StorageIOError(copy_doc)"
            /\ log' = [log EXCEPT ![idx] = "failed"]
            /\ pc' = "raised"
            /\ UNCHANGED copied
  /\ UNCHANGED snap
  /\ UNCHANGED <<config, store, init_kwargs, apply_kwargs, idx, doc,
                 importer, loc, ondisk, uploaded, queue>>

\* line 254, move_tempfile: default_storage.copy_doc copies the file to the
\* document's path, or fails with the storage's error
move_tempfile ==
  /\ pc = "move"
  /\ \E ok \in BOOLEAN :
       IF ok
       THEN /\ copied' = Append(copied, loc.doc)
            /\ pc' = "close"
            /\ UNCHANGED <<raised, log>>
       ELSE /\ raised' = "StorageIOError(copy_doc)"
            /\ log' = [log EXCEPT ![idx] = "failed"]
            /\ pc' = "raised"
            /\ UNCHANGED copied
  /\ UNCHANGED snap
  /\ UNCHANGED <<config, store, init_kwargs, apply_kwargs, idx, doc,
                 importer, loc, files, uploaded, queue>>

\* PayloadClose followed by the dispatch, without the upload
PayloadClose_then_dispatch ==
  /\ pc = "close"
  /\ closes' = [closes EXCEPT ![importer.handle] = @ + 1]
  /\ ondisk' = [ondisk EXCEPT ![importer.handle] =
                  @ /\ ~Unlinks(PayloadArg, importer.handle)]
  /\ pc' = "dispatch"
  /\ UNCHANGED snap
  /\ UNCHANGED <<config, store, init_kwargs, apply_kwargs, idx, doc,
                 importer, loc, raised, sidefx, log>>

\* line 255: self.payload.close()
PayloadClose ==
  /\ pc = "close"
  /\ closes' = [closes EXCEPT ![importer.handle] = @ + 1]
  /\ ondisk' = [ondisk EXCEPT ![importer.handle] =
                  @ /\ ~Unlinks(PayloadArg, importer.handle)]
  /\ pc' = "ocr"
  /\ UNCHANGED snap
  /\ UNCHANGED <<config, store, init_kwargs, apply_kwargs, idx, doc,
                 importer, loc, raised, sidefx, log>>

\* line 256 with skip_ocr: nothing is uploaded or dispatched
ApplySkipOcr ==
  /\ pc = "ocr"
  /\ Arg.skip_ocr
  /\ pc' = "merge"
  /\ UNCHANGED snap
  /\ UNCHANGED <<config, store, init_kwargs, apply_kwargs, idx, doc,
                 importer, loc, raised, files, sidefx, log>>

\* ApplyUpload with the storage's error caught by the chain, which goes on
\* with the next stage
ApplyUpload_caught ==
  /\ pc = "ocr"
  /\ ~Arg.skip_ocr
  /\ \/ /\ \E ns \in {"ocr-namespace", ""} :
             loc' = [loc EXCEPT !.namespace = ns]
        /\ uploaded' = Append(uploaded, loc.doc)
        /\ pc' = "dispatch"
        /\ UNCHANGED <<idx, log>>
     \/ /\ log' = [log EXCEPT ![idx] = "failed"]
        /\ idx' = idx + 1
        /\ pc' = "loop"
        /\ UNCHANGED <<loc, uploaded>>
  /\ UNCHANGED snap
  /\ UNCHANGED <<config, store, init_kwargs, apply_kwargs, doc, raised,
                 importer, files, copied, queue>>

\* lines 258-263: default_storage.upload returns a namespace or None (kept
\* as ''), or fails with the storage's error
ApplyUpload ==
  /\ pc = "ocr"
  /\ ~Arg.skip_ocr
  /\ \/ /\ \E ns \in {"ocr-namespace", ""} :
             loc' = [loc EXCEPT !.namespace = ns]
        /\ uploaded' = Append(uploaded, loc.doc)
        /\ pc' = "dispatch"
        /\ UNCHANGED <<raised, log>>
     \/ /\ raised' = "StorageIOError(upload)"
        /\ log' = [log EXCEPT ![idx] = "failed"]
        /\ pc' = "raised"
        /\ UNCHANGED <<loc, uploaded>>
  /\ UNCHANGED snap
  /\ UNCHANGED <<config, store, init_kwargs, apply_kwargs, idx, doc,
                 importer, files, copied, queue>>

\* the keyword arguments of the task message of lines 264-272
OcrMessage ==
  [user_id |-> loc.user.name, document_id |-> loc.doc,
   file_name |-> loc.name, lang |-> loc.lang, namespace |-> loc.namespace,
   version |-> loc.version, target_version |-> loc.target_version]

\* lines 264-272: one ocr_document_task message; user.id raises
\* AttributeError when user is still None or a string
ApplyDispatch ==
  /\ pc = "dispatch"
  /\ IF loc.user.kind = "User"
     THEN /\ queue' = Append(queue, OcrMessage)
          /\ pc' = "merge"
          /\ UNCHANGED <<raised, log>>
     ELSE /\ raised' = "AttributeError"
          /\ log' = [log EXCEPT ![idx] = "failed"]
          /\ pc' = "raised"
          /\ UNCHANGED queue
  /\ UNCHANGED snap
  /\ UNCHANGED <<config, store, init_kwargs, apply_kwargs, idx, doc,
                 importer, loc, files, copied, uploaded>>

\* get_init_kwargs: the stage's document, when it has one
get_init_kwargs(self) ==
  IF self.doc # NoDoc THEN [doc |-> self.doc] ELSE EmptyDict

\* get_apply_kwargs: the default stage hands back nothing
get_apply_kwargs(self) == EmptyDict

\* importer.get_init_kwargs() and importer.get_apply_kwargs() of the stage
\* that was applied: the methods the class overwrites, else DefaultPipeline's
init_kwargs_temp ==
  IF "init_kwargs_temp" \in DOMAIN Stage THEN Stage.init_kwargs_temp
  ELSE get_init_kwargs(importer)

apply_kwargs_temp ==
  IF "apply_kwargs_temp" \in DOMAIN Stage THEN Stage.apply_kwargs_temp
  ELSE get_apply_kwargs(importer)

\* bool(d) of what a stage handed back: None and {} are falsy
Truthy(d) == DOMAIN d # {}

\* lines 316-325: apply returned; keep its document and merge what the
\* stage hands back into the running maps
StageApplied ==
  /\ pc = "merge"
  /\ doc' = loc.doc
  /\ init_kwargs' = IF Truthy(init_kwargs_temp)
                    THEN Merge(init_kwargs, init_kwargs_temp)
                    ELSE init_kwargs
  /\ apply_kwargs' = IF Truthy(apply_kwargs_temp)
                     THEN Merge(apply_kwargs, apply_kwargs_temp)
                     ELSE apply_kwargs
  /\ log' = [log EXCEPT ![idx] = "applied"]
  /\ produced' = [produced EXCEPT ![idx] = loc.doc]
  /\ UNCHANGED before
  /\ idx' = idx + 1
  /\ pc' = "loop"
  /\ UNCHANGED <<config, store, importer, loc, raised, files, sidefx>>

Next ==
  \/ LoopExit
  \/ StageImportError
  \/ StageTypeError
  \/ StagePathGone
  \/ StageNotSupported
  \/ StageConstructed
  \/ ApplyNoUser
  \/ ApplyResolve
  \/ ApplyCreate
  \/ ApplyCreateInvalid
  \/ ApplyUpdate
  \/ ApplyUnbound
  \/ move_tempfile
  \/ PayloadClose
  \/ ApplySkipOcr
  \/ ApplyUpload
  \/ ApplyDispatch
  \/ StageApplied

Spec == Init /\ [][Next]_vars

\* ------------------------------------------- one apply, every argument
\* The state right after the single configured DefaultPipeline has been
\* constructed from a supported file, for every combination of the apply
\* arguments, processor kind, user table and existing document.
\* the state in which the apply of the only configured stage, a
\* DefaultPipeline built from the init map, is entered
Constructed(table, existing, aargs, iargs) ==
  /\ pipelines = <<DefaultStage>>
  /\ User_objects = table
  /\ Folder_inbox = [u \in {"admin", "alice"} |-> 0]
  /\ Document_objects = [d \in {e.id : e \in existing} |->
                           CHOOSE e \in existing : e.id = d]
  /\ heap = Document_objects
  /\ init_kwargs = iargs
  /\ apply_kwargs = aargs
  /\ idx = 1
  /\ pc = "apply"
  /\ doc = NoDoc
  /\ importer = [processor |-> iargs.processor,
                 doc       |-> Get(iargs, "doc", NoDoc),
                 handle    |-> HandleOf(iargs.payload, 1)]
  /\ loc = NoLocals
  /\ raised = None
  /\ closes = [h \in 0..1 |-> 0]
  /\ ondisk = [h \in 0..1 |-> h = HandleOf(iargs.payload, 1)]
  /\ copied = <<>>
  /\ uploaded = <<>>
  /\ queue = <<>>
  /\ log = <<"constructed">>
  /\ produced = <<NoDoc>>
  /\ before = [rows |-> Document_objects, copied |-> <<>>,
               uploaded |-> <<>>, queue |-> <<>>]

InitApply ==
  \E table \in UserTables,
     existing \in Existing(0..MaxVersion),
     aargs \in ApplyArgs(UserArgs, {None, "folder-1"}, {None, "fra"},
                         {None, "scan.pdf"}, BOOLEAN, BOOLEAN, BOOLEAN) :
    \E iargs \in InitArgs({p \in FilePayloads({BYTES, TEMPFILE}, {PDF},
                                              1..MaxPages) : p.delete},
                          existing, {WEB, REST_API, IMAP, LOCAL_}) :
      /\ ("doc" \in DOMAIN iargs) = (existing # {})
      /\ Constructed(table, existing, aargs, iargs)
      /\ peer = NoPeer

NextApply ==
  \/ ApplyNoUser
  \/ ApplyResolve
  \/ ApplyCreate
  \/ ApplyCreateInvalid
  \/ ApplyUpdate
  \/ ApplyUnbound
  \/ move_tempfile
  \/ PayloadClose
  \/ ApplySkipOcr
  \/ ApplyUpload
  \/ ApplyDispatch
  \/ StageApplied
  \/ LoopExit

SpecApply == InitApply /\ [][NextApply]_vars

\* ----------------------------------------- chains with overriding stages
\* pipeline classes that hand back: an apply argument only; an init and an
\* apply argument, the latter None; an explicit doc=None and two apply
\* arguments; a payload of None; a key no caller passed
ExtendedStages ==
  {Extended(EmptyDict, [skip_ocr |-> TRUE]),
   Extended([processor |-> IMAP], [name |-> None]),
   Extended([doc |-> NoDoc], [lang |-> "fra", name |-> "renamed.pdf"]),
   Extended([payload |-> NoPayload, processor |-> LOCAL_], EmptyDict),
   Extended(EmptyDict, [tag |-> "invoice", create_document |-> FALSE])}

\* a chain run over up to two configured stages, overriding ones included
InitMerge ==
  \E stages \in SeqsUpTo(StageChoices \cup ExtendedStages, MaxChain),
     existing \in Existing({MaxVersion}),
     aargs \in ChainRequests :
    \E iargs \in InitArgs(Payloads(Mimes, {MaxPages}), existing, {WEB}) :
      /\ ("doc" \in DOMAIN iargs) = (existing # {})
      /\ Entered(stages, <<Admin, Alice>>, iargs, aargs, existing)

SpecMerge == InitMerge /\ [][Next]_vars

\* ------------------------------------- two applies in separate contexts
\* A second execution context runs DefaultPipeline.apply on the same store
\* (user given, parent None, OCR not skipped), on the same existing document
\* when there is one.  Its steps are the statements of apply that read or
\* write the store, the storage and the queue.

\* the store refuses a second Inbox row (same title, no parent, same user)
InboxUnique(name) == Folder_inbox[name] = 0

\* the other context is entered: its caller hands it the Document instance
\* it fetched from the store
PeerEnter ==
  /\ peer.pc = "idle"
  /\ peer' = [peer EXCEPT !.pc = "apply",
                          !.instance = IF peer.doc # NoDoc
                                       THEN Document_objects[peer.doc]
                                       ELSE NoRow]
  /\ UNCHANGED <<pipelines, User_objects, store, init_kwargs, apply_kwargs,
                 idx, pc, doc, importer, loc, raised, files, sidefx, log,
                 snap>>

\* lines 138-142, get_or_create: the lookup
PeerGetInbox ==
  /\ peer.pc = "apply"
  /\ peer' = [peer EXCEPT !.pc = "inbox",
                          !.found = Folder_inbox[peer.user] > 0]
  /\ UNCHANGED <<pipelines, User_objects, store, init_kwargs, apply_kwargs,
                 idx, pc, doc, importer, loc, raised, files, sidefx, log,
                 snap>>

\* lines 138-142, get_or_create: nothing was found, so the row is inserted;
\* when the store refuses the insert the existing row is fetched instead
PeerCreateInbox ==
  /\ peer.pc = "inbox"
  /\ Folder_inbox' = IF ~peer.found /\ InboxUnique(peer.user)
                     THEN [Folder_inbox EXCEPT ![peer.user] = @ + 1]
                     ELSE Folder_inbox
  /\ peer' = [peer EXCEPT !.pc = "document",
                          !.refused = ~peer.found /\ ~InboxUnique(peer.user)]
  /\ UNCHANGED <<pipelines, User_objects, Document_objects, heap,
                 init_kwargs, apply_kwargs, idx, pc, doc, importer, loc,
                 raised, files, sidefx, log, snap>>

\* the row the other context creates (lines 225-234)
PeerNewDocument ==
  [id |-> NextId, version |-> 0, page_count |-> 1, file_name |-> "peer.pdf",
   size |-> 1024, user |-> UserObj(peer.user),
   lang |-> Preference(User_objects, peer.user), parent |-> None]

\* the other context's in-memory document after lines 241-246
PeerBumped(d) ==
  [d EXCEPT !.version = d.version + 1, !.page_count = 1,
            !.file_name = "peer.pdf", !.size = 1024]

\* lines 223-252 in the other context: create the document, or give the
\* instance it holds its next version and save it; validation passes or
\* raises
PeerDocument ==
  /\ peer.pc = "document"
  /\ IF peer.doc = NoDoc
     THEN \/ /\ Document_objects' =
                  Put(Document_objects, NextId, PeerNewDocument)
             /\ peer' = [peer EXCEPT !.pc = "ocr", !.doc = NextId,
                                     !.instance = PeerNewDocument]
          \/ /\ peer' = [peer EXCEPT !.pc = "raised"]
             /\ UNCHANGED Document_objects
     ELSE /\ Document_objects' =
               [Document_objects EXCEPT
                  ![peer.doc] = PeerBumped(peer.instance)]
          /\ \E valid \in BOOLEAN :
               peer' = [peer EXCEPT
                          !.pc = IF valid THEN "ocr" ELSE "raised",
                          !.instance = PeerBumped(peer.instance),
                          !.version = peer.instance.version,
                          !.target_version = peer.instance.version + 1]
  /\ UNCHANGED <<pipelines, User_objects, Folder_inbox, heap, init_kwargs,
                 apply_kwargs, idx, pc, doc, importer, loc, raised, files,
                 sidefx, log, snap>>

\* the task message of the other context (lines 264-272)
PeerMessage ==
  [user_id |-> peer.user, document_id |-> peer.doc,
   file_name |-> "peer.pdf", lang |-> Preference(User_objects, peer.user),
   namespace |-> "ocr-namespace", version |-> peer.version,
   target_version |-> peer.target_version]

\* lines 254-272 in the other context: copy, upload and dispatch, or a
\* storage error
PeerOcr ==
  /\ peer.pc = "ocr"
  /\ \/ /\ copied' = Append(copied, peer.doc)
        /\ uploaded' = Append(uploaded, peer.doc)
        /\ queue' = Append(queue, PeerMessage)
        /\ peer' = [peer EXCEPT !.pc = "done"]
     \/ /\ peer' = [peer EXCEPT !.pc = "raised"]
        /\ UNCHANGED sidefx
  /\ UNCHANGED <<pipelines, User_objects, store, init_kwargs, apply_kwargs,
                 idx, pc, doc, importer, loc, raised, files, log, snap>>

\* two applies on one store: any request of this context, any owner for the
\* other one
InitConcurrent ==
  \E existing \in Existing({MaxVersion}),
     aargs \in ApplyArgs({NoUser, UserObj("alice"), UserStr("ghost")},
                         {None, "folder-1"}, {None}, {None}, BOOLEAN,
                         {FALSE}, BOOLEAN),
     other \in {"admin", "alice"} :
    \E iargs \in InitArgs(FilePayloads({BYTES}, {PDF}, {MaxPages}),
                          existing, {WEB, IMAP}) :
      /\ iargs.payload.delete
      /\ ("doc" \in DOMAIN iargs) = (existing # {})
      /\ Constructed(<<Admin, Alice>>, existing, aargs, iargs)
      /\ peer = [NoPeer EXCEPT !.pc = "idle", !.user = other,
                               !.doc = Get(iargs, "doc", NoDoc)]

NextConcurrent ==
  \/ NextApply
  \/ PeerEnter
  \/ PeerGetInbox
  \/ PeerCreateInbox
  \/ PeerDocument
  \/ PeerOcr

SpecConcurrent == InitConcurrent /\ [][NextConcurrent]_vars

\* ======================================================== properties
\* what is observed of a run
Ended == pc \in {"returned", "raised"}

\* the document returned by the last applied stage among 1..n, if any
LastProduced(n) ==
  LET applied == {j \in 1..n : log[j] = "applied"}
  IN  IF applied = {} THEN NoDoc
      ELSE produced[CHOOSE j \in applied : \A h \in applied : h <= j]

\* C1: if the construction of stage k raises TypeError, the loop stops: the
\* chain has returned without an exception, no stage after k was constructed
\* or applied, and the value returned is the document of the last applied
\* stage among 1..k-1 (no document when none was applied).
C1_HardStop ==
  \A k \in DOMAIN log :
    log[k] = "type_error" =>
      /\ pc = "returned" /\ raised = None
      /\ \A j \in DOMAIN log : j > k => log[j] = "pending"
      /\ doc = LastProduced(k - 1)

\* the second of three stages raised TypeError after the first produced a
\* document
C1_Witness ==
  /\ Len(pipelines) = 3
  /\ log = <<"applied", "type_error", "pending">>
  /\ doc # NoDoc /\ doc = produced[1]

\* the constructor of the current stage is about to reject the payload by
\* mimetype
Rejecting ==
  /\ InLoop /\ Stage.importable
  /\ PayloadArg.kind \in Stage.payload_types
  /\ ondisk[0] \/ PayloadArg.kind = BYTES
  /\ PayloadArg.mime \notin Stage.mimetypes

\* C2: a stage that rejects the payload by mimetype is skipped: its apply is
\* never called, the init map, the apply map and the document produced so
\* far stay as they are, nothing is stored or dispatched, and the loop goes
\* on with the next configured stage.
C2_RejectedStageSkipped ==
  [][ /\ Rejecting =>
           /\ log'[idx] = "not_supported"
           /\ init_kwargs' = init_kwargs /\ apply_kwargs' = apply_kwargs
           /\ doc' = doc
           /\ UNCHANGED <<store, sidefx, closes, raised>>
           /\ idx' = idx + 1 /\ pc' = "loop"
      /\ \A k \in DOMAIN log :
           log[k] = "not_supported" => log'[k] = "not_supported"
    ]_vars

\* a stage was rejected by mimetype and the next stage was applied
C2_Witness ==
  \E k \in DOMAIN log :
    /\ k < Len(pipelines)
    /\ log[k] = "not_supported" /\ log[k + 1] = "applied"

\* C3: a stage that cannot be imported is skipped and only it: it is neither
\* constructed nor applied, the maps and the current document stay as they
\* are, and the loop goes on with the next configured stage.
C3_UnloadableStageSkipped ==
  [][ /\ (InLoop /\ ~Stage.importable) =>
           /\ log'[idx] = "import_error"
           /\ init_kwargs' = init_kwargs /\ apply_kwargs' = apply_kwargs
           /\ doc' = doc
           /\ UNCHANGED <<store, sidefx, files, raised, importer>>
           /\ idx' = idx + 1 /\ pc' = "loop"
      /\ \A k \in DOMAIN log :
           log[k] = "import_error" => log'[k] = "import_error"
    ]_vars

\* an unloadable stage was skipped and both stages after it were processed
C3_Witness ==
  /\ Len(pipelines) = 3
  /\ log[1] = "import_error"
  /\ log[2] \in {"applied", "not_supported"}
  /\ log[3] = "applied"

\* every configured stage can be built from the payload and rejects its
\* mimetype
AllReject ==
  /\ Len(pipelines) >= 1
  /\ \A k \in 1..Len(pipelines) :
       /\ pipelines[k].importable
       /\ PayloadArg.kind \in pipelines[k].payload_types
       /\ PayloadArg.mime \notin pipelines[k].mimetypes

\* C4: when every configured stage rejects the payload's mimetype, the run
\* returns no document, copies nothing, uploads nothing, dispatches nothing,
\* creates or changes no document row, and raises nothing.
C4_AllRejected ==
  [][ AllReject =>
        /\ pc' \in {"loop", "returned"}
        /\ raised' = None
        /\ doc' = NoDoc
        /\ copied' = <<>> /\ uploaded' = <<>> /\ queue' = <<>>
        /\ Document_objects' = Document_objects
    ]_vars

\* a run over several stages returned after every one rejected the payload
C4_Witness ==
  /\ AllReject /\ Len(pipelines) >= 2
  /\ pc = "returned" /\ doc = NoDoc
  /\ \A k \in DOMAIN log : log[k] = "not_supported"

\* the file name apply computes: the name argument, else the path's basename
FreshName == IF Arg.name = None THEN basename(importer.handle) ELSE Arg.name

\* C5: when apply ran on an existing document at version V and returned, the
\* stored document has version V+1 and the page count, file name and size
\* computed from the payload, and the OCR message dispatched for it (OCR not
\* skipped) carries version V and target version V+1.
C5_Reingestion ==
  (pc = "merge" /\ "doc" \in DOMAIN init_kwargs) =>
    LET d   == init_kwargs.doc
        V   == before.rows[d].version
        row == Document_objects[d]
    IN  /\ row.version = V + 1
        /\ row.page_count = PayloadArg.pages
        /\ row.file_name = FreshName
        /\ row.size = PayloadArg.size
        /\ heap[d] = row
        /\ ~Arg.skip_ocr =>
             /\ Len(queue) = Len(before.queue) + 1
             /\ queue[Len(queue)].document_id = d
             /\ queue[Len(queue)].version = V
             /\ queue[Len(queue)].target_version = V + 1

\* a document at the highest starting version was re-ingested with a file of
\* another page count and its OCR message was dispatched
C5_Witness ==
  /\ pc = "merge" /\ "doc" \in DOMAIN init_kwargs
  /\ before.rows[init_kwargs.doc].version = MaxVersion
  /\ PayloadArg.pages = MaxPages
  /\ PayloadArg.pages # before.rows[init_kwargs.doc].page_count
  /\ queue # <<>>

\* the account a document falls to when no user is given
DefaultUser == First(User_objects, Superusers(User_objects))

\* C6: when a run that started without an existing document has succeeded,
\* exactly one document exists, at version 0, with the computed page count,
\* owned by the resolved default user when no user was supplied, and the OCR
\* message (OCR not skipped) carries version 0 and target version 1.
C6_NewIngestion ==
  (pc = "returned" /\ raised = None /\ doc # NoDoc
     /\ DOMAIN before.rows = {}) =>
    /\ Cardinality(DOMAIN Document_objects) = 1
    /\ Document_objects[doc].version = 0
    /\ Document_objects[doc].page_count = PayloadArg.pages
    /\ Arg.user = NoUser =>
         /\ Document_objects[doc].user.kind = "User"
         /\ Document_objects[doc].user = DefaultUser
    /\ ~Arg.skip_ocr =>
         /\ Len(queue) = 1
         /\ queue[1].version = 0 /\ queue[1].target_version = 1

\* C7: an apply that returned has enqueued no message with skip_ocr, one
\* message per page with apply_async (per-page mode), and exactly one message
\* otherwise.
C7_DispatchCount ==
  pc = "merge" =>
    Len(queue) - Len(before.queue) =
      IF Arg.skip_ocr THEN 0
      ELSE IF Arg.apply_async THEN PayloadArg.pages
      ELSE 1

\* the temp files of the run: the caller's file, or the temp file each
\* constructed stage wrote from the payload's bytes
TempHandles ==
  IF PayloadArg.kind = BYTES
  THEN {k \in DOMAIN log : log[k] \in {"not_supported", "applied", "failed"}}
  ELSE {0}

\* C8: when a run in which a stage admitted the payload has ended (it
\* returned, or a validation or copy failure left the chain), every temp file
\* backing the payload has been closed exactly once.
C8_ClosedExactlyOnce ==
  (/\ Ended
   /\ raised \in {None, "ValidationError", "StorageIOError(copy_doc)"}
   /\ PayloadArg.kind \in FileKinds
   /\ \E k \in DOMAIN log : log[k] \in {"applied", "failed"}) =>
    \A h \in TempHandles : closes[h] = 1

RECURSIVE SumUpTo(_, _)
SumUpTo(f, n) == IF n < 0 THEN 0 ELSE f[n] + SumUpTo(f, n - 1)

\* the number of close() calls of the run
TotalCloses == SumUpTo(closes, Len(pipelines))

\* C9: a payload is closed only after the copy into storage succeeded: a
\* close() happens only when the apply that calls it has copied its document
\* since it was constructed, there are never more close() calls than
\* successful copies, and a failed copy is followed by no close.
C9_CloseAfterCopy ==
  /\ [](TotalCloses <= Len(copied))
  /\ [](raised = "StorageIOError(copy_doc)" => TotalCloses = Len(copied))
  /\ [][ closes' # closes =>
           /\ copied = Append(before.copied, loc.doc)
           /\ copied' = copied
       ]_vars

\* the copy of a second stage failed after the first stage copied and closed
C9_Witness ==
  /\ raised = "StorageIOError(copy_doc)"
  /\ Len(copied) = 1 /\ TotalCloses = 1

C11_FailedBumpNotStored ==
  (raised = "ValidationError" /\ importer.doc # NoDoc
     /\ importer.doc \in DOMAIN before.rows) =>
    LET row == Document_objects[importer.doc]
        old == before.rows[importer.doc]
    IN  /\ row.version = old.version
        /\ row.page_count = old.page_count
        /\ row.file_name = old.file_name
        /\ row.size = old.size

\* C12: the running maps change only when an applied stage hands back
\* overrides; then each map has the keys it had plus the override's keys,
\* every key of the override has the override's value (None when the
\* override says None), and every other key keeps the value it had.  A
\* stage that hands back nothing leaves the map as it was.
C12_MergeOverrides ==
  [][ /\ pc # "merge" =>
           init_kwargs' = init_kwargs /\ apply_kwargs' = apply_kwargs
      /\ pc = "merge" =>
           /\ DOMAIN init_kwargs' =
                DOMAIN init_kwargs \cup DOMAIN init_kwargs_temp
           /\ \A k \in DOMAIN init_kwargs_temp :
                init_kwargs'[k] = init_kwargs_temp[k]
           /\ \A k \in DOMAIN init_kwargs \ DOMAIN init_kwargs_temp :
                init_kwargs'[k] = init_kwargs[k]
           /\ DOMAIN apply_kwargs' =
                DOMAIN apply_kwargs \cup DOMAIN apply_kwargs_temp
           /\ \A k \in DOMAIN apply_kwargs_temp :
                apply_kwargs'[k] = apply_kwargs_temp[k]
           /\ \A k \in DOMAIN apply_kwargs \ DOMAIN apply_kwargs_temp :
                apply_kwargs'[k] = apply_kwargs[k]
    ]_vars

\* the first stage cleared the name and replaced the processor, the user and
\* the payload were kept, and the second stage was applied with those maps
C12_Witness ==
  /\ Len(pipelines) = 2
  /\ pipelines[1] = Extended([processor |-> IMAP], [name |-> None])
  /\ log = <<"applied", "applied">>
  /\ apply_kwargs.name = None /\ apply_kwargs.user = UserObj("alice")
  /\ init_kwargs.processor = IMAP /\ init_kwargs.payload.kind = TEMPFILE

\* the document of the apply that returned was created by it
Created == loc.doc \notin DOMAIN before.rows

\* C13: when apply has returned, the language stored on the document it
\* created and the language of the OCR message it sent are the language
\* argument when one was given, and the resolved owner's stored preference
\* when none was given, with and without a parent folder.
C13_Language ==
  (pc = "merge" /\ get_user_properties(Arg.user).ok) =>
    LET expected == IF Arg.lang # None THEN Arg.lang
                    ELSE get_user_properties(Arg.user).lang
    IN  /\ Created => Document_objects[loc.doc].lang = expected
        /\ ~Arg.skip_ocr => queue[Len(queue)].lang = expected

\* the account the owner argument stands for: the first superuser when no
\* user is given, the account of that username when a string is given, the
\* given user otherwise
ResolvedOwner ==
  IF Arg.user = NoUser THEN DefaultUser
  ELSE IF Arg.user.kind = "str"
       THEN First(User_objects, Named(User_objects, Arg.user.name))
       ELSE Arg.user

\* C14: the owner of a document that apply created, and the user of the OCR
\* message that apply dispatched, is the resolved account (when there is such
\* an account), with and without a parent folder.
C14_OwnerResolved ==
  ResolvedOwner # NoUser =>
    /\ (loc.bound /\ Created) =>
         Document_objects[loc.doc].user = ResolvedOwner
    /\ (pc = "merge" /\ ~Arg.skip_ocr) =>
         queue[Len(queue)].user_id = ResolvedOwner.name

Recovered == {"import_error", "type_error", "not_supported"}

\* C16: the step in which a stage fails to load, rejects the payload or
\* cannot be constructed from the arguments raises nothing to the caller.  A
\* stage whose apply failed (validation, storage copy or upload) ends the
\* run with that error: no later stage is constructed or applied, and the
\* run never returns.
C16_ErrorPropagation ==
  /\ [][ \A k \in DOMAIN log :
           (log[k] = "pending" /\ log'[k] \in Recovered) =>
             raised' = None /\ pc' \in {"loop", "returned"}
       ]_vars
  /\ [](\A k \in DOMAIN log :
          log[k] = "failed" =>
            /\ pc = "raised" /\ raised # None /\ idx = k
            /\ \A j \in DOMAIN log : j > k => log[j] = "pending")
  /\ [](raised \in {"ValidationError", "StorageIOError(copy_doc)",
                    "StorageIOError(upload)"} =>
          pc = "raised" /\ log[idx] = "failed")
  /\ [][pc = "raised" => pc' = "raised" /\ raised' = raised]_vars

\* the first of three stages was skipped, the upload of the second failed,
\* the third was never reached
C16_Witness ==
  /\ Len(pipelines) = 3
  /\ log[1] \in Recovered /\ log[2] = "failed" /\ log[3] = "pending"
  /\ raised = "StorageIOError(upload)" /\ pc = "raised"

\* C17: whatever the arguments, an apply that does not return raised a
\* persistence failure: a validation error or a storage error of the copy or
\* of the upload.
C17_OnlyPersistenceFailures ==
  raised \in {None, "ValidationError", "StorageIOError(copy_doc)",
              "StorageIOError(upload)"}

\* an apply of this context, or of the other one, has looked up or created
\* the Inbox of user u
MainNeeded(u) == loc.name # None /\ Arg.parent = None /\ loc.user.name = u
PeerNeeded(u) ==
  peer.user = u /\ peer.pc \in {"document", "ocr", "done", "raised"}

MainReingested ==
  /\ pc = "returned" /\ raised = None /\ log[1] = "applied"
  /\ importer.doc \in DOMAIN before.rows
PeerReingested == peer.pc = "done" /\ peer.doc \in DOMAIN before.rows

\* C19: when each re-ingestion of a document that started at version V has
\* either succeeded or not begun, the stored version is V plus the number of
\* those that succeeded, whatever their interleaving; no two OCR messages for
\* the document carry the same target version; and the stored version never
\* decreases.
C19_VersionCounts ==
  /\ [](\A d \in DOMAIN before.rows :
          ((MainReingested \/ pc = "apply")
             /\ (PeerReingested \/ peer.pc = "idle")) =>
            /\ Document_objects[d].version =
                 before.rows[d].version
                   + (IF MainReingested THEN 1 ELSE 0)
                   + (IF PeerReingested THEN 1 ELSE 0)
            /\ \A i, j \in DOMAIN queue :
                 (i # j /\ queue[i].document_id = d
                    /\ queue[j].document_id = d) =>
                   queue[i].target_version # queue[j].target_version)
  /\ [][\A d \in DOMAIN Document_objects :
          Document_objects'[d].version >= Document_objects[d].version]_vars

\* C20: in every apply the side effects come in this order: the document is
\* created or updated and validated, then it is copied into storage, then it
\* is uploaded, then its OCR message is enqueued with the namespace the
\* upload returned; hence every message in the queue is for a document that
\* was copied and uploaded.
C20_SideEffectOrder ==
  /\ [][ copied' # copied =>
           /\ loc.bound /\ loc.doc \in DOMAIN Document_objects
           /\ copied = before.copied /\ uploaded = before.uploaded
           /\ copied' = Append(copied, loc.doc)
       ]_vars
  /\ [][ uploaded' # uploaded =>
           /\ copied = Append(before.copied, loc.doc)
           /\ uploaded = before.uploaded /\ queue = before.queue
           /\ uploaded' = Append(uploaded, loc.doc)
       ]_vars
  /\ [][ queue' # queue =>
           /\ copied = Append(before.copied, loc.doc)
           /\ uploaded = Append(before.uploaded, loc.doc)
           /\ queue = before.queue
           /\ loc.namespace \in {"ocr-namespace", ""}
           /\ Len(queue') = Len(queue) + 1
           /\ queue'[Len(queue')].document_id = loc.doc
           /\ queue'[Len(queue')].namespace = loc.namespace
       ]_vars
  /\ [](\A i \in DOMAIN queue :
          /\ \E j \in DOMAIN copied : copied[j] = queue[i].document_id
          /\ \E j \in DOMAIN uploaded : uploaded[j] = queue[i].document_id)

\* two stages of one run each created or updated, copied, uploaded and
\* dispatched
C20_Witness ==
  /\ Len(queue) = 2 /\ Len(copied) = 2 /\ Len(uploaded) = 2
  /\ pc = "returned"

\* C21: a stage is constructed, and its apply reads the payload's path (page
\* count, size, copy), only while the temp file behind the payload has not
\* been closed by an earlier stage of the run; no construction finds the
\* path gone.
C21_PathUsable ==
  /\ [](pc \in {"apply", "document", "move"} => closes[importer.handle] = 0)
  /\ [][ \A k \in DOMAIN log :
           (log[k] = "pending" /\ log'[k] \in {"constructed", "not_supported",
                                               "failed"}) =>
             /\ closes[HandleOf(PayloadArg, k)] = 0
             /\ log'[k] # "failed"
       ]_vars

\* the OCR messages enqueued for document d
MessagesFor(d) == {i \in DOMAIN queue : queue[i].document_id = d}

\* C22: when a run has returned, the store holds at most one document (the
\* one handed in or the one the run created), every stage that was applied
\* returned that document, the run returned it, and with OCR not skipped
\* exactly one OCR message was enqueued for it.
C22_OneDocumentOneHandoff ==
  (pc = "returned" /\ raised = None) =>
    /\ Cardinality(DOMAIN Document_objects) <= 1
    /\ \A k \in DOMAIN log : log[k] = "applied" => produced[k] = doc
    /\ doc # NoDoc => doc \in DOMAIN Document_objects
    /\ (doc # NoDoc /\ ~Arg.skip_ocr) => Cardinality(MessagesFor(doc)) = 1
====
